---- MODULE Spec2Model ----
(***************************************************************************)
(* A model of rppal's GPIO register layer (src/gpio/mem.rs, GpioMem) and   *)
(* of its pin handles (src/gpio/pin.rs: Pin, InputPin, OutputPin, AltPin), *)
(* with the interrupt methods of InputPin.  Gpio::take and the interrupt   *)
(* coordinator and workers that pin.rs calls into follow their             *)
(* description in the specification.                                       *)
(*                                                                         *)
(* A 32-bit register word is the set of its set bit positions (a subset of *)
(* 0..31), so that &, |, !, << and >> are computed bit for bit at the      *)
(* width of u32.                                                           *)
(***************************************************************************)
EXTENDS Integers, FiniteSets, Sequences, TLC

\* ------------------------------------------------------------- bounds
\* Number of threads sharing the GpioMem / GpioState.
NumThreads == 2

Threads == 1..NumThreads

\* ------------------------------------------------- program constants
GPIO_MEM_REGISTERS == 41
MAX == 54
GPFSEL0 == 0
GPSET0 == 28 \div 4
GPCLR0 == 40 \div 4
GPLEV0 == 52 \div 4
GPPUD == 148 \div 4
GPPUDCLK0 == 152 \div 4

Registers == 0..(GPIO_MEM_REGISTERS - 1)
Pins == 0..(MAX - 1)

\* enum Mode: the 3-bit function select values (Input, Output, Alt0..Alt5).
Input == 0
Output == 1
Modes == 0..7
\* The modes the threads ask for: Input (000), Output (001) and Alt3 (111).
Alt3 == 7
ModeArgs == {Input, Output, Alt3}

\* enum PullUpDown.
Off == 0
PullDown == 1
PullUp == 2
PullUpDowns == {Off, PullDown, PullUp}

\* enum Level.
Low == 0
High == 1
Levels == {Low, High}

\* Option<T>.
None == <<>>
Some(v) == <<v>>
Unwrap(o) == o[1]

\* ------------------------------------------------------- u32 as bits
WordBits == 0..31

\* The bits of a small literal (0b1, 0b11, 0b111, mode as u32, pud as u32).
Bits(n) == {i \in 0..7 : (n \div (2 ^ i)) % 2 = 1}

\* The number held by the low 8 bits of a word (after `as u8`).
ToNat(w) ==
    LET f[i \in 0..8] == IF i = 8 THEN 0
                         ELSE (IF i \in w THEN 2 ^ i ELSE 0) + f[i + 1]
    IN f[0]

Shl(w, k) == {b + k : b \in w} \cap WordBits
Shr(w, k) == {b - k : b \in {x \in w : x >= k}}
BitAnd(a, b) == a \cap b
BitOr(a, b) == a \cup b
BitNot(a) == WordBits \ a
AsU8(w) == w \cap (0..7)

\* ------------------------------------------------------------- state
VARIABLES
    mem,        \* the 41 mapped registers: [Registers -> SUBSET WordBits]
    locks,      \* GpioMem.locks: [Registers -> BOOLEAN]
    pull,       \* the pull resistor latched in each pin's pad (hardware)
    pc,         \* each thread's position
    loc,        \* each thread's arguments and locals
    hist,       \* history: what each thread last asked for
    pins_taken, \* GpioState.pins_taken: [Pins -> BOOLEAN]
    handle,     \* the pin handle each thread holds
    sync_interrupts, \* GpioState.sync_interrupts: the mutex and what it guards
    workers,    \* the worker of each thread's input handle, and its edges
    opening,    \* GpioMem::open: its position, the devices' answers, its result
    calls       \* how many register-layer calls each thread has issued

vars ==
    <<mem, locks, pull, pc, loc, hist, pins_taken, handle, sync_interrupts,
      workers, opening, calls>>

\* What the pin handles never touch, and what the register layer never
\* touches.
irqvars == <<sync_interrupts, workers>>
others == <<pins_taken, handle, irqvars, opening, calls>>

\* Pins the threads work on: both ends of a function-select register (0, 9),
\* the start of the next (10), both sides of the 32-pin bank boundary
\* (31, 32), and the last pin (53).
TestPins == {0, 9, 10, 31, 32, 53}

\* Register contents the hardware may hold when the mapping is opened: the
\* function select of pin n is n % 8, its pull resistor n % 3.
InitMode(n) == n % 8
InitPull(n) == n % 3

FselWord(r, modeOf) ==
    UNION {Shl(Bits(modeOf[p]), (p % 10) * 3) :
             p \in {q \in Pins : q \div 10 = r}}

InitMem ==
    [r \in Registers |->
        IF r >= GPFSEL0 /\ r <= GPFSEL0 + (MAX - 1) \div 10
        THEN FselWord(r - GPFSEL0, [p \in Pins |-> InitMode(p)])
        ELSE {}]

\* A thread's arguments and locals: the pin, the mode and the pull of the
\* call in progress (None outside a call), the register value read, the
\* place to return to, the result of level() or of poll_interrupt(), and
\* the trigger being configured.
InitLoc(p) ==
    [pin |-> p, mode |-> None, pud |-> None, reg_value |-> {},
     ret |-> "idle", result |-> None, trigger |-> None, returned |-> None,
     call |-> "none", during |-> None]

\* History: the arguments of the thread's latest set_mode call, of its
\* latest set_pullupdown call and of the one before, the level last written
\* to the pin while it was an output, the mode the pin had when its handle
\* was configured, and the outcome of the thread's latest take or release
\* (until it configures a handle).
InitHist ==
    [lastMode |-> None, lastPud |-> None, prevPud |-> None, lastLevel |-> None,
     modeBefore |-> None, outcome |-> None]

\* The outcome of a take of pin n: the error and, for a take that succeeded,
\* whether the thread's take of the same pin just before was refused.
TakeOutcome(t, n, err) ==
    Some([op |-> "take", pin |-> n, err |-> err,
          refusedBefore |-> /\ err = "Ok"
                            /\ hist[t].outcome # None
                            /\ Unwrap(hist[t].outcome).op = "take"
                            /\ Unwrap(hist[t].outcome).pin = n
                            /\ Unwrap(hist[t].outcome).err = "PinInUse",
          reset_on_drop |-> FALSE])

\* The outcome of the release of handle h, recorded for typed handles.
DropOutcome(h) ==
    IF h.kind = "Pin" THEN None
    ELSE Some([op |-> "drop", pin |-> h.pin, err |-> "Ok",
               refusedBefore |-> FALSE, reset_on_drop |-> h.reset_on_drop])

\* Results and errors: Ok(v), Err(e), and the errors Io(kind),
\* PermissionDenied and UnknownModel.
Ok(v) == <<"Ok", <<v>>>>
Err(e) == <<"Err", e>>
Io(kind) == <<"Io", kind>>
PermissionDenied == <<"PermissionDenied">>
UnknownModel == <<"UnknownModel">>

\* GpioMem::open over, with the mapping made on the fast path.
Opened ==
    [pc |-> "done",
     devices |-> [gpiomem_open |-> "Ok", gpiomem_mmap |-> "Ok",
                  device_info |-> "Ok", mem_open |-> "Ok", mem_mmap |-> "Ok"],
     gpiomem |-> Some(Ok("ptr")), devmem |-> None, result |-> Some(Ok("GpioMem"))]

\* No handle held.
NoHandle ==
    [kind |-> "none", pin |-> 0, mode |-> None, prev_mode |-> None,
     async_interrupt |-> None, reset_on_drop |-> TRUE, pud_mode |-> Off]

\* The interrupt coordinator with its mutex free and no synchronous trigger,
\* and a handle's worker before any was started: its state, and the matching
\* edges that occurred, are queued and were passed to the callback.
NoSyncInterrupts == [owner |-> None, trigger |-> [p \in Pins |-> None]]
NoWorker == [state |-> "none", edges |-> 0, pending |-> 0, calls |-> 0]

\* ----------------------------------------------------- GpioMem reads
\* GpioMem::read
read(offset) == mem[offset]

\* GpioMem::level, on register contents m
LevelOffset(pin) == GPLEV0 + pin \div 32
LevelShift(pin) == pin % 32

LevelOf(m, pin) ==
    LET reg_value == m[LevelOffset(pin)]
    IN ToNat(BitAnd(AsU8(Shr(reg_value, LevelShift(pin))), Bits(1)))

\* GpioMem::mode, on register contents m
ModeOf(m, pin) ==
    LET offset == GPFSEL0 + pin \div 10
        shift == (pin % 10) * 3
        reg_value == m[offset]
    IN ToNat(BitAnd(AsU8(Shr(reg_value, shift)), Bits(7)))

\* ------------------------------------------------- the hardware's part
\* What a volatile write of `value` to register `offset` does.  GPSETn and
\* GPCLRn are write-1-to-act and self-clearing: they drive the level of the
\* pins selected as outputs.  A write to GPPUDCLKn latches the selector held
\* in GPPUD into the pads of the pins whose clock bit is written as 1.
HwWrite(m, pl, offset, value) ==
    IF offset \in {GPSET0, GPSET0 + 1} THEN
        LET n == offset - GPSET0
            hit == {b \in value : 32 * n + b \in Pins
                                  /\ ModeOf(m, 32 * n + b) = Output}
        IN [mem |-> [m EXCEPT ![GPLEV0 + n] = @ \cup hit], pull |-> pl]
    ELSE IF offset \in {GPCLR0, GPCLR0 + 1} THEN
        LET n == offset - GPCLR0
            hit == {b \in value : 32 * n + b \in Pins
                                  /\ ModeOf(m, 32 * n + b) = Output}
        IN [mem |-> [m EXCEPT ![GPLEV0 + n] = @ \ hit], pull |-> pl]
    ELSE IF offset \in {GPPUDCLK0, GPPUDCLK0 + 1} THEN
        LET n == offset - GPPUDCLK0
            sel == ToNat(BitAnd(m[GPPUD], Bits(3)))
        IN [mem |-> [m EXCEPT ![offset] = value],
            pull |-> [p \in Pins |->
                        IF p \div 32 = n /\ (p % 32) \in value
                           /\ sel \in PullUpDowns
                        THEN sel ELSE pl[p]]]
    ELSE [mem |-> [m EXCEPT ![offset] = value], pull |-> pl]

\* GpioMem::write
write(offset, value) ==
    LET hw == HwWrite(mem, pull, offset, value)
    IN mem' = hw.mem /\ pull' = hw.pull

\* The flags with a store left out.
ReleaseSkipped(l, offset) == l

\* self.locks[offset].store(false, Ordering::SeqCst)
Released(l, offset) == [l EXCEPT ![offset] = FALSE]

\* A compare_and_swap that takes the flag whatever it held.
CasIgnoresHolder(offset) == TRUE

\* AtomicBool::compare_and_swap(false, true) returning false: the flag was
\* free and is now held.
CasAcquired(offset) == ~locks[offset]


\* --------------------------------------------------- GpioMem::set_mode
ModeOffset(pin) == GPFSEL0 + pin \div 10
ModeShift(pin) == (pin % 10) * 3

\* (reg_value & !(0b111 << shift)) | ((mode as u32) << shift)
SetModeWord(reg_value, shift, m) ==
    BitOr(BitAnd(reg_value, BitNot(Shl(Bits(7), shift))), Shl(Bits(m), shift))

\* The call: the arguments are bound and control enters the spin loop.
Enter_set_mode(t, pin, m, ret) ==
    /\ pc' = [pc EXCEPT ![t] = "sm_lock"]
    /\ loc' = [loc EXCEPT ![t].pin = pin, ![t].mode = Some(m), ![t].ret = ret,
                          ![t].result = None]

\* loop { if !locks[offset].compare_and_swap(false, true) { break; } }
\* A failed compare_and_swap changes nothing and the loop tries again.
SmLock(t) ==
    /\ pc[t] = "sm_lock"
    /\ CasAcquired(ModeOffset(loc[t].pin))
    /\ locks' = [locks EXCEPT ![ModeOffset(loc[t].pin)] = TRUE]
    /\ pc' = [pc EXCEPT ![t] = "sm_read"]
    /\ UNCHANGED <<others, mem, pull, loc, hist>>

\* let reg_value = self.read(offset);
SmRead(t) ==
    /\ pc[t] = "sm_read"
    /\ loc' = [loc EXCEPT ![t].reg_value = read(ModeOffset(loc[t].pin))]
    /\ pc' = [pc EXCEPT ![t] = "sm_write"]
    /\ UNCHANGED <<others, mem, locks, pull, hist>>

\* self.write(offset, ...);
SmWrite(t) ==
    /\ pc[t] = "sm_write"
    /\ write(ModeOffset(loc[t].pin),
             SetModeWord(loc[t].reg_value, ModeShift(loc[t].pin),
                         Unwrap(loc[t].mode)))
    /\ pc' = [pc EXCEPT ![t] = "sm_unlock"]
    /\ UNCHANGED <<others, locks, loc, hist>>

\* self.locks[offset].store(false); and the return to the caller.
SmUnlock(t) ==
    /\ pc[t] = "sm_unlock"
    /\ locks' = Released(locks, ModeOffset(loc[t].pin))
    /\ pc' = [pc EXCEPT ![t] = loc[t].ret]
    /\ loc' = [loc EXCEPT ![t].reg_value = {}, ![t].ret = "idle",
                          ![t].mode = None, ![t].pud = None]
    /\ UNCHANGED <<others, mem, pull, hist>>

\* --------------------------------------------- GpioMem::set_pullupdown
ClkOffset(pin) == GPPUDCLK0 + pin \div 32
ClkShift(pin) == pin % 32

\* The control word with the selector it had.
ControlWordKeepsSelector(reg_value, pud) == reg_value

\* (reg_value & !0b11) | ((pud as u32) & 0b11)
PudControlWord(reg_value, pud) ==
    BitOr(BitAnd(reg_value, BitNot(Bits(3))), BitAnd(Bits(pud), Bits(3)))

\* The control word written back without masking the selector out.
PudClearWordUnmasked(reg_value) == reg_value

\* reg_value & !0b11
PudClearWord(reg_value) == BitAnd(reg_value, BitNot(Bits(3)))

\* 1 << shift
ClockPulseWord(shift) == Shl(Bits(1), shift)

Enter_set_pullupdown(t, pin, pud, ret) ==
    /\ pc' = [pc EXCEPT ![t] = "pud_lock_gppud"]
    /\ loc' = [loc EXCEPT ![t].pin = pin, ![t].pud = Some(pud), ![t].ret = ret,
                          ![t].result = None]

\* if !self.locks[GPPUD].compare_and_swap(false, true) { ... }
PudLockGppud(t) ==
    /\ pc[t] = "pud_lock_gppud"
    /\ CasAcquired(GPPUD)
    /\ locks' = [locks EXCEPT ![GPPUD] = TRUE]
    /\ pc' = [pc EXCEPT ![t] = "pud_lock_clk"]
    /\ UNCHANGED <<others, mem, pull, loc, hist>>

\* if !self.locks[offset].compare_and_swap(false, true) { break; }
\* else { self.locks[GPPUD].store(false); } and around the loop again.
PudLockClk(t) ==
    /\ pc[t] \in {"pud_lock_clk", "pud_release_gppud"}
    /\ IF pc[t] = "pud_release_gppud"
       THEN /\ locks' = Released(locks, GPPUD)
            /\ pc' = [pc EXCEPT ![t] = "pud_lock_gppud"]
       ELSE IF CasAcquired(ClkOffset(loc[t].pin))
       THEN /\ locks' = [locks EXCEPT ![ClkOffset(loc[t].pin)] = TRUE]
            /\ pc' = [pc EXCEPT ![t] = "pud_read"]
       ELSE /\ locks' = locks
            /\ pc' = [pc EXCEPT ![t] = "pud_release_gppud"]
    /\ UNCHANGED <<others, mem, pull, loc, hist>>

\* let reg_value = self.read(GPPUD);
PudRead(t) ==
    /\ pc[t] = "pud_read"
    /\ loc' = [loc EXCEPT ![t].reg_value = read(GPPUD)]
    /\ pc' = [pc EXCEPT ![t] = "pud_write_control"]
    /\ UNCHANGED <<others, mem, locks, pull, hist>>

\* self.write(GPPUD, (reg_value & !0b11) | ((pud as u32) & 0b11));
PudWriteControl(t) ==
    /\ pc[t] = "pud_write_control"
    /\ write(GPPUD, PudControlWord(loc[t].reg_value, Unwrap(loc[t].pud)))
    /\ pc' = [pc EXCEPT ![t] = "pud_sleep_setup"]
    /\ UNCHANGED <<others, locks, loc, hist>>

\* sleep(Duration::new(0, 5000)): the set-up time, then the hold time.
PudSleep(t) ==
    /\ pc[t] \in {"pud_sleep_setup", "pud_sleep_hold"}
    /\ pc' = [pc EXCEPT ![t] = IF pc[t] = "pud_sleep_setup"
                               THEN "pud_write_clock" ELSE "pud_clear_control"]
    /\ UNCHANGED <<others, mem, locks, pull, loc, hist>>

\* self.write(offset, 1 << shift);
PudWriteClock(t) ==
    /\ pc[t] = "pud_write_clock"
    /\ write(ClkOffset(loc[t].pin), ClockPulseWord(ClkShift(loc[t].pin)))
    /\ pc' = [pc EXCEPT ![t] = "pud_sleep_hold"]
    /\ UNCHANGED <<others, locks, loc, hist>>

\* self.write(GPPUD, reg_value & !0b11);
PudClearControl(t) ==
    /\ pc[t] = "pud_clear_control"
    /\ write(GPPUD, PudClearWord(loc[t].reg_value))
    /\ pc' = [pc EXCEPT ![t] = "pud_clear_clock"]
    /\ UNCHANGED <<others, locks, loc, hist>>

\* self.write(offset, 0);
PudClearClock(t) ==
    /\ pc[t] = "pud_clear_clock"
    /\ write(ClkOffset(loc[t].pin), {})
    /\ pc' = [pc EXCEPT ![t] = "pud_unlock_clk"]
    /\ UNCHANGED <<others, locks, loc, hist>>

\* The flag of GPPUD given up before that of the clock register.
GppudReleasedFirst(pin) == GPPUD

\* The flag set_pullupdown gives up first: its clock register's.
ReleasedFirst(pin) == ClkOffset(pin)

\* self.locks[offset].store(false);
PudUnlockClk(t) ==
    /\ pc[t] = "pud_unlock_clk"
    /\ locks' = Released(locks, ReleasedFirst(loc[t].pin))
    /\ pc' = [pc EXCEPT ![t] = "pud_unlock_gppud"]
    /\ UNCHANGED <<others, mem, pull, loc, hist>>

\* self.locks[GPPUD].store(false); and the return to the caller.
PudUnlockGppud(t) ==
    /\ pc[t] = "pud_unlock_gppud"
    /\ locks' = Released(locks, GPPUD)
    /\ pc' = [pc EXCEPT ![t] = loc[t].ret]
    /\ loc' = [loc EXCEPT ![t].reg_value = {}, ![t].ret = "idle",
                          ![t].mode = None, ![t].pud = None]
    /\ UNCHANGED <<others, mem, pull, hist>>

\* ------------------------------- GpioMem::set_high / set_low / level
\* The set register of the first bank, whatever the pin.
SetOffsetFirstBank(pin) == GPSET0

SetOffset(pin) == GPSET0 + pin \div 32
ClrOffset(pin) == GPCLR0 + pin \div 32
SetShift(pin) == pin % 32

\* A word that also carries the bit of the next pin of the bank.
PinBitAndNext(shift) ==
    BitOr(Shl(Bits(1), shift), Shl(Bits(1), (shift + 1) % 32))

\* 1 << shift
PinBit(shift) == Shl(Bits(1), shift)

\* What the thread remembers of a level write: the level, when the pin was
\* an output at the time of the write.
Wrote(t, l) ==
    IF ModeOf(mem, loc[t].pin) = Output THEN Some(l) ELSE None

\* GpioMem::set_high: self.write(offset, 1 << shift);
set_high(t) ==
    /\ pc[t] = "idle"
    /\ write(SetOffset(loc[t].pin), PinBit(SetShift(loc[t].pin)))
    /\ loc' = [loc EXCEPT ![t].result = None]
    /\ hist' = [hist EXCEPT ![t].lastLevel = Wrote(t, High)]
    /\ UNCHANGED <<others, locks, pc>>

\* GpioMem::set_low: self.write(offset, 1 << shift);
set_low(t) ==
    /\ pc[t] = "idle"
    /\ write(ClrOffset(loc[t].pin), PinBit(SetShift(loc[t].pin)))
    /\ loc' = [loc EXCEPT ![t].result = None]
    /\ hist' = [hist EXCEPT ![t].lastLevel = Wrote(t, Low)]
    /\ UNCHANGED <<others, locks, pc>>

\* GpioMem::level: the level read is kept as the call's result.
level(t) ==
    /\ pc[t] = "idle"
    /\ loc' = [loc EXCEPT ![t].result = Some(LevelOf(mem, loc[t].pin))]
    /\ UNCHANGED <<others, mem, locks, pull, pc, hist>>

\* --------------------------------- the register layer, used directly
\* Each thread works on a pin of its own (the ownership pool hands a pin
\* number to one holder at a time) and calls GpioMem's operations in any
\* order, with any arguments.  The threads' pins are neighbours in TestPins.
SortedTestPins == <<0, 9, 10, 31, 32, 53>>

PinChoices ==
    {[t \in Threads |-> SortedTestPins[k + t]] :
        k \in 0..(Len(SortedTestPins) - NumThreads)}

InitShared ==
    /\ locks = [r \in Registers |-> FALSE]
    /\ pull = [p \in Pins |-> InitPull(p)]
    /\ pc = [t \in Threads |-> "idle"]
    /\ hist = [t \in Threads |-> InitHist]
    /\ pins_taken = [p \in Pins |-> FALSE]
    /\ handle = [t \in Threads |-> NoHandle]
    /\ sync_interrupts = NoSyncInterrupts
    /\ workers = [t \in Threads |-> NoWorker]
    /\ opening = Opened
    /\ calls = [t \in Threads |-> 0]

set_mode(t) ==
    /\ pc[t] = "idle"
    /\ \E m \in ModeArgs : Enter_set_mode(t, loc[t].pin, m, "idle")
    /\ hist' = [hist EXCEPT ![t].lastLevel = None, ![t].lastMode = loc'[t].mode]
    /\ UNCHANGED <<others, mem, locks, pull>>

set_pullupdown(t) ==
    /\ pc[t] = "idle"
    /\ \E pud \in PullUpDowns : Enter_set_pullupdown(t, loc[t].pin, pud, "idle")
    /\ hist' = [hist EXCEPT ![t].prevPud = hist[t].lastPud,
                            ![t].lastPud = loc'[t].pud]
    /\ UNCHANGED <<others, mem, locks, pull>>

SetModeSteps(t) == SmLock(t) \/ SmRead(t) \/ SmWrite(t) \/ SmUnlock(t)

SetPullSteps(t) ==
    \/ PudLockGppud(t) \/ PudLockClk(t) \/ PudRead(t) \/ PudWriteControl(t)
    \/ PudSleep(t) \/ PudWriteClock(t) \/ PudClearControl(t)
    \/ PudClearClock(t) \/ PudUnlockClk(t) \/ PudUnlockGppud(t)

\* Threads calling set_mode concurrently.
InitMode_ ==
    /\ mem = InitMem
    /\ InitShared
    /\ \E f \in PinChoices : loc = [t \in Threads |-> InitLoc(f[t])]

NextMode == \E t \in Threads : set_mode(t) \/ SetModeSteps(t)

SpecMode == InitMode_ /\ [][NextMode]_vars

\* Threads calling set_pullupdown concurrently.  The selector bits of GPPUD
\* hold whatever the last user of the hardware left in them.
InitPull_ ==
    /\ \E sel \in PullUpDowns : mem = [InitMem EXCEPT ![GPPUD] = Bits(sel)]
    /\ InitShared
    /\ \E f \in PinChoices : loc = [t \in Threads |-> InitLoc(f[t])]

NextPull == \E t \in Threads : set_pullupdown(t) \/ SetPullSteps(t)

SpecPull == InitPull_ /\ [][NextPull]_vars

\* Threads writing and reading the levels of output pins.  The first
\* thread's pin is any of the 54, the others' pins follow it; every level
\* starts low or every level starts high.
LevelPinChoices ==
    {[t \in Threads |-> (p + t - 1) % MAX] : p \in Pins}

BankPins(n) == {b \in WordBits : 32 * n + b \in Pins}

InitLevel ==
    /\ InitShared
    /\ \E f \in LevelPinChoices :
         /\ loc = [t \in Threads |-> InitLoc(f[t])]
         /\ \E l \in Levels :
              mem = [r \in Registers |->
                       IF r \in {GPLEV0, GPLEV0 + 1}
                       THEN (IF l = High THEN BankPins(r - GPLEV0) ELSE {})
                       ELSE IF r >= GPFSEL0 /\ r <= GPFSEL0 + (MAX - 1) \div 10
                       THEN FselWord(r - GPFSEL0,
                                [p \in Pins |->
                                    IF p \in {f[t] : t \in Threads}
                                    THEN Output ELSE InitMode(p)])
                       ELSE {}]

\* Pin::write: match level { Low => set_low(), High => set_high() }
Pin_write(t) ==
    \E l \in Levels : IF l = Low THEN set_low(t) ELSE set_high(t)

\* Pin::read
Pin_read(t) == level(t)

NextLevel == \E t \in Threads : Pin_write(t) \/ Pin_read(t)

SpecLevel == InitLevel /\ [][NextLevel]_vars

\* ------------------------------------------------------ pin handles
Typed == {"InputPin", "OutputPin", "AltPin"}

\* Gpio's take of pin number n: compare-and-swap of pins_taken[n] from false
\* to true; PinInUse when it was true already, a Pin (Pin::new) otherwise.
take(t, n) ==
    /\ pc[t] = "idle"
    /\ handle[t].kind = "none"
    /\   IF pins_taken[n]
         THEN /\ hist' = [hist EXCEPT ![t].outcome = TakeOutcome(t, n, "PinInUse")]
              /\ UNCHANGED <<pins_taken, handle>>
         ELSE /\ pins_taken' = [pins_taken EXCEPT ![n] = TRUE]
              /\ handle' = [handle EXCEPT ![t] = [NoHandle EXCEPT !.kind = "Pin", !.pin = n]]
              /\ hist' = [hist EXCEPT ![t].outcome = TakeOutcome(t, n, "Ok")]
    /\ UNCHANGED <<opening, calls, mem, locks, pull, pc, loc, irqvars>>

\* The mode the pin had, recorded even when it is the target.
PrevModeAlways(current, target) == Some(current)

\* The target recorded in place of the mode the pin had.
PrevModeRecordsTarget(current, target) ==
    IF current = target THEN None ELSE Some(target)

\* The previous mode a constructor records: None when the pin already has
\* the target mode.
PrevMode(current, target) == IF current = target THEN None ELSE Some(current)

\* InputPin::new, up to its call of set_mode or set_pullupdown.
InputPin_new(t, pud_mode) ==
    LET pin == handle[t].pin
        prev_mode == ModeOf(mem, pin)
    IN /\ handle' = [handle EXCEPT ![t].kind = "InputPin",
                                   ![t].prev_mode = PrevMode(prev_mode, Input),
                                   ![t].reset_on_drop = TRUE,
                                   ![t].pud_mode = pud_mode]
       /\ hist' = [hist EXCEPT ![t].modeBefore = Some(prev_mode), ![t].outcome = None]
       /\ IF prev_mode = Input
          THEN Enter_set_pullupdown(t, pin, pud_mode, "idle")
          ELSE Enter_set_mode(t, pin, Input, "new_pull")
       /\ UNCHANGED <<opening, calls, mem, locks, pull, pins_taken, irqvars>>

\* Pin::into_input, into_input_pulldown, into_input_pullup
into_input(t, pud_mode) ==
    /\ pc[t] = "idle"
    /\ handle[t].kind = "Pin"
    /\ InputPin_new(t, pud_mode)

\* InputPin::new: pin.set_pullupdown(pud_mode);
InputPinPull(t) ==
    /\ pc[t] = "new_pull"
    /\ Enter_set_pullupdown(t, handle[t].pin, handle[t].pud_mode, "idle")
    /\ UNCHANGED <<opening, calls, mem, locks, pull, hist, pins_taken, handle, irqvars>>

\* OutputPin::new (target Output) and AltPin::new (target the given mode).
TypedPin_new(t, kind, target) ==
    LET pin == handle[t].pin
        prev_mode == ModeOf(mem, pin)
    IN /\ handle' = [handle EXCEPT ![t].kind = kind,
                                   ![t].mode = IF kind = "AltPin" THEN Some(target) ELSE None,
                                   ![t].prev_mode = PrevMode(prev_mode, target),
                                   ![t].reset_on_drop = TRUE,
                                   ![t].pud_mode = Off]
       /\ hist' = [hist EXCEPT ![t].modeBefore = Some(prev_mode), ![t].outcome = None]
       /\ IF prev_mode = target
          THEN UNCHANGED <<pc, loc>>
          ELSE Enter_set_mode(t, pin, target, "idle")
       /\ UNCHANGED <<opening, calls, mem, locks, pull, pins_taken, irqvars>>

\* Pin::into_output
into_output(t) ==
    /\ pc[t] = "idle"
    /\ handle[t].kind = "Pin"
    /\ TypedPin_new(t, "OutputPin", Output)

\* Pin::into_alt
into_alt(t, m) ==
    /\ pc[t] = "idle"
    /\ handle[t].kind = "Pin"
    /\ TypedPin_new(t, "AltPin", m)

\* set_reset_on_drop (impl_reset_on_drop)
set_reset_on_drop(t) ==
    /\ pc[t] = "idle"
    /\ handle[t].kind \in Typed
    /\ \E reset_on_drop \in BOOLEAN :
         /\ reset_on_drop # handle[t].reset_on_drop
         /\ handle' = [handle EXCEPT ![t].reset_on_drop = reset_on_drop]
    /\ UNCHANGED <<opening, calls, mem, locks, pull, pc, loc, hist, pins_taken, irqvars>>

\* The pool's flags with the pin's cleared before the handle's own drop runs.
PinsTakenClearedFirst(taken, h) == [taken EXCEPT ![h.pin] = FALSE]

\* The pool's flags while the handle's own drop runs: impl_drop does not
\* touch them, the pin field is dropped after it.
PinsTakenDuringDrop(taken, h) == taken

\* The handle goes out of scope.  A typed handle runs impl_drop's drop:
\* nothing when reset_on_drop is off, else set_mode(prev_mode) when a
\* previous mode was recorded; its pin field is dropped after that.  An
\* unconfigured Pin runs Pin's drop alone.
drop(t) ==
    /\ pc[t] = "idle"
    /\ handle[t].kind # "none"
    /\ IF handle[t].kind = "Pin" \/ ~handle[t].reset_on_drop
       THEN /\ pc' = [pc EXCEPT ![t] = "pin_drop"]
            /\ loc' = loc
       ELSE IF handle[t].prev_mode # None
       THEN Enter_set_mode(t, handle[t].pin, Unwrap(handle[t].prev_mode), "drop_pull")
       ELSE /\ pc' = [pc EXCEPT ![t] = "drop_pull"]
            /\ loc' = loc
    /\ pins_taken' = PinsTakenDuringDrop(pins_taken, handle[t])
    /\ UNCHANGED <<opening, calls, mem, locks, pull, hist, handle, irqvars>>

\* A pull cleared whatever was applied.
ClearsPullAlways(h) == TRUE

\* if self.pud_mode != PullUpDown::Off
ClearsPull(h) == h.pud_mode # Off

\* impl_drop: if self.pud_mode != PullUpDown::Off { set_pullupdown(Off) }
DropPull(t) ==
    /\ pc[t] = "drop_pull"
    /\ IF ClearsPull(handle[t])
       THEN Enter_set_pullupdown(t, handle[t].pin, Off, "pin_drop")
       ELSE /\ pc' = [pc EXCEPT ![t] = "pin_drop"]
            /\ loc' = loc
    /\ UNCHANGED <<opening, calls, mem, locks, pull, hist, pins_taken, handle, irqvars>>

\* The index Pin's drop stores to, and a neighbour of it.
PinDropIndexNext(pin) == (pin + 1) % MAX

PinDropIndex(pin) == pin

\* The pool's flags after Pin's drop, and the flags left as they were.
PinsTakenKept(taken, pin) == taken

\* self.gpio_state.pins_taken[self.pin as usize].store(false)
PinsTakenAfterDrop(taken, pin) == [taken EXCEPT ![PinDropIndex(pin)] = FALSE]

\* The flags left as they were when the typed handle's drop returned early.
PinsTakenSkippedOnEarlyReturn(taken, h) ==
    IF h.kind \in Typed /\ ~h.reset_on_drop
    THEN taken ELSE PinsTakenAfterDrop(taken, h.pin)

\* The pool's flags once handle h is gone: whatever its own drop did, and
\* however it returned, its Pin (the handle itself, or its pin field) is
\* dropped.
PinsTakenAfterRelease(taken, h) == PinsTakenAfterDrop(taken, h.pin)

\* impl Drop for Pin
PinDrop(t) ==
    /\ pc[t] = "pin_drop"
    /\ pins_taken' = PinsTakenAfterRelease(pins_taken, handle[t])
    /\ handle' = [handle EXCEPT ![t] = NoHandle]
    /\ pc' = [pc EXCEPT ![t] = "idle"]
    /\ hist' = [hist EXCEPT ![t].modeBefore = None,
                            ![t].outcome = DropOutcome(handle[t])]
    /\ UNCHANGED <<opening, calls, mem, locks, pull, loc, irqvars>>

\* The steps of handles other than inputs, and the steps of all handles.
OutputSteps(t) ==
    \/ into_output(t) \/ set_reset_on_drop(t) \/ drop(t)
    \/ DropPull(t) \/ PinDrop(t) \/ SetModeSteps(t)

HandleSteps(t) ==
    \/ InputPinPull(t) \/ SetPullSteps(t) \/ OutputSteps(t)

\* Threads taking, configuring and releasing one pin, whose mode at the
\* start is any of the eight, with every pull and every mode asked for.
ThePin == 9

Init ==
    /\ \E m \in Modes :
         mem = [InitMem EXCEPT ![ModeOffset(ThePin)] =
                    SetModeWord(@, ModeShift(ThePin), m)]
    /\ InitShared
    /\ loc = [t \in Threads |-> InitLoc(0)]

Next ==
    \E t \in Threads :
        \/ take(t, ThePin)
        \/ \E pud_mode \in PullUpDowns : into_input(t, pud_mode)
        \/ \E m \in Modes : into_alt(t, m)
        \/ HandleSteps(t)

Spec == Init /\ [][Next]_vars

\* Threads competing for two pins of one function-select register, which
\* they configure as outputs or for an alternate function.
PoolPins == {0, 9}

InitPool ==
    /\ mem = InitMem
    /\ InitShared
    /\ loc = [t \in Threads |-> InitLoc(0)]

NextPool ==
    \E t \in Threads :
        \/ \E n \in PoolPins : take(t, n)
        \/ into_alt(t, Alt3)
        \/ OutputSteps(t)

SpecPool == InitPool /\ [][NextPool]_vars

\* ------------------------------------------------------------ interrupts
\* The triggers asked for, and the levels an edge matching a trigger can
\* report.
Triggers == {"RisingEdge", "Both"}

Matches(trigger, l) ==
    \/ trigger = "Both"
    \/ trigger = "RisingEdge" /\ l = High
    \/ trigger = "FallingEdge" /\ l = Low

\* The most matching edges followed on one worker's pin.
MaxEdges == 2

\* A lock() that does not wait for the holder.
MutexIgnoresOwner == TRUE

\* sync_interrupts.lock(): returns once no thread holds the mutex.
MutexFree == sync_interrupts.owner = None

\* A slot left as it was.
TakeKeeps(slot) == slot

\* Option::take: the slot afterwards.
Take(slot) == None

\* What a polled pin can report: a timeout, or the level of an edge that
\* matches its synchronous trigger.
PollResults(pin) ==
    {None} \cup
    (IF sync_interrupts.trigger[pin] = None THEN {}
     ELSE {Some(l) : l \in {k \in Levels :
                Matches(Unwrap(sync_interrupts.trigger[pin]), k)}})

\* A stop request sent whether or not the slot holds a worker.
StopsUnconditionally(slot) == TRUE

\* A slot never seen to hold a worker.
SlotSeenEmpty(slot) == FALSE

\* if let Some(mut interrupt) = ..
HoldsInterrupt(slot) == slot # None

\* The value of type () and the error of a failed step of an interrupt
\* operation.
Unit == "unit"

Failed(step) == Err(<<"Interrupt", step>>)

\* A failed step whose error is dropped.
ErrorDropped(step) == Some(Ok(Unit))

\* step()?: the error is what the operation returns.
Propagated(step) == Some(Failed(step))

\* The poll in flight, if any, when a call that goes on to lock
\* sync_interrupts begins: the thread inside its wait.
PollInFlight(ret) == IF ret = "si_lock" THEN sync_interrupts.owner ELSE None

\* InputPin::clear_async_interrupt up to the wait inside stop(): the slot is
\* emptied and its worker, if any, told to stop; with no worker the call is
\* over and the caller goes on at ret.
Enter_clear_async_interrupt(t, call, ret, trigger) ==
    /\ handle' = [handle EXCEPT ![t].async_interrupt = Take(@)]
    /\ IF HoldsInterrupt(handle[t].async_interrupt)
       THEN /\ workers' = [workers EXCEPT ![t].state = "stopping"]
            /\ pc' = [pc EXCEPT ![t] = "cai_join"]
            /\ loc' = [loc EXCEPT ![t].ret = ret, ![t].trigger = trigger,
                                  ![t].result = None, ![t].returned = None,
                                  ![t].call = call,
                                  ![t].during = PollInFlight(ret)]
       ELSE /\ pc' = [pc EXCEPT ![t] = ret]
            /\ loc' = [loc EXCEPT ![t].trigger =
                                      IF ret = "idle" THEN None ELSE trigger,
                                  ![t].result = None,
                                  ![t].returned =
                                      IF ret = "idle" THEN Some(Ok(Unit))
                                      ELSE None,
                                  ![t].call = call,
                                  ![t].during = PollInFlight(ret)]
            /\ UNCHANGED workers

\* interrupt.stop()?: returns when the worker has terminated, with the
\* worker's result; an error ends the calling operation.
CaiJoin(t) ==
    /\ pc[t] = "cai_join"
    /\ workers[t].state = "exited"
    /\ workers' = [workers EXCEPT ![t].state = "joined"]
    /\ \E ok \in BOOLEAN :
         /\ pc' = [pc EXCEPT ![t] = IF ok THEN loc[t].ret ELSE "idle"]
         /\ loc' = [loc EXCEPT ![t].ret = "idle",
                               ![t].trigger = IF ok /\ loc[t].ret # "idle"
                                              THEN @ ELSE None,
                               ![t].returned =
                                   IF ~ok THEN Propagated("stop")
                                   ELSE IF loc[t].ret = "idle"
                                   THEN Some(Ok(Unit)) ELSE None,
                               ![t].during = IF ok THEN @ ELSE None]
    /\ UNCHANGED <<opening, calls, mem, locks, pull, hist, pins_taken, handle, sync_interrupts>>

\* InputPin::clear_async_interrupt
clear_async_interrupt(t) ==
    /\ pc[t] = "idle"
    /\ handle[t].kind = "InputPin"
    /\ Enter_clear_async_interrupt(t, "clear_async_interrupt", "idle", None)
    /\ UNCHANGED <<opening, calls, mem, locks, pull, hist, pins_taken, sync_interrupts>>

\* InputPin::set_interrupt: self.clear_async_interrupt()?;
set_interrupt(t) ==
    /\ pc[t] = "idle"
    /\ handle[t].kind = "InputPin"
    /\ \E trigger \in Triggers :
         Enter_clear_async_interrupt(t, "set_interrupt", "si_lock",
                                     Some(trigger))
    /\ UNCHANGED <<opening, calls, mem, locks, pull, hist, pins_taken, sync_interrupts>>

\* InputPin::set_interrupt: sync_interrupts.lock().unwrap().set_interrupt(..),
\* which records the trigger or fails.
SiLock(t) ==
    /\ pc[t] = "si_lock"
    /\ MutexFree
    /\ \E ok \in BOOLEAN :
         /\ sync_interrupts' =
               IF ok
               THEN [sync_interrupts EXCEPT
                        !.trigger[handle[t].pin] = loc[t].trigger]
               ELSE sync_interrupts
         /\ loc' = [loc EXCEPT ![t].trigger = None,
                               ![t].during = None,
                               ![t].returned =
                                   IF ok THEN Some(Ok(Unit))
                                   ELSE Propagated("set_interrupt")]
    /\ pc' = [pc EXCEPT ![t] = "idle"]
    /\ UNCHANGED <<opening, calls, mem, locks, pull, hist, pins_taken, handle, workers>>

\* The outcomes of the coordinator's clear_interrupt for a pin: removing a
\* recorded trigger succeeds or fails, and with no trigger recorded there is
\* nothing to remove.
ClearOutcomes(pin) ==
    IF sync_interrupts.trigger[pin] = None THEN {TRUE} ELSE BOOLEAN

\* InputPin::clear_interrupt
clear_interrupt(t) ==
    /\ pc[t] = "idle"
    /\ handle[t].kind = "InputPin"
    /\ MutexFree
    /\ \E ok \in ClearOutcomes(handle[t].pin) :
         /\ sync_interrupts' =
               IF ok
               THEN [sync_interrupts EXCEPT !.trigger[handle[t].pin] = None]
               ELSE sync_interrupts
         /\ loc' = [loc EXCEPT ![t].result = None,
                               ![t].call = "clear_interrupt",
                               ![t].returned =
                                   IF ok THEN Some(Ok(Unit))
                                   ELSE Propagated("clear_interrupt")]
    /\ UNCHANGED <<opening, calls, mem, locks, pull, pc, hist, pins_taken, handle, workers>>

\* InputPin::set_async_interrupt: self.clear_interrupt()?;
\* self.clear_async_interrupt()?;
set_async_interrupt(t) ==
    /\ pc[t] = "idle"
    /\ handle[t].kind = "InputPin"
    /\ MutexFree
    /\ \E ok \in ClearOutcomes(handle[t].pin) :
         IF ok
         THEN /\ sync_interrupts' =
                   [sync_interrupts EXCEPT !.trigger[handle[t].pin] = None]
              /\ \E trigger \in Triggers :
                   Enter_clear_async_interrupt(t, "set_async_interrupt",
                                               "sa_new", Some(trigger))
         ELSE /\ loc' = [loc EXCEPT ![t].result = None,
                                    ![t].call = "set_async_interrupt",
                                    ![t].returned =
                                        Propagated("clear_interrupt")]
              /\ UNCHANGED <<pc, handle, workers, sync_interrupts>>
    /\ UNCHANGED <<opening, calls, mem, locks, pull, hist, pins_taken>>

\* InputPin::set_async_interrupt:
\* self.async_interrupt = Some(AsyncInterrupt::new(..)?), which starts the
\* worker or fails.
SaNew(t) ==
    /\ pc[t] = "sa_new"
    /\ \E ok \in BOOLEAN :
         /\ IF ok
            THEN /\ workers' = [workers EXCEPT
                                  ![t] = [NoWorker EXCEPT !.state = "running"]]
                 /\ handle' = [handle EXCEPT
                                  ![t].async_interrupt = loc[t].trigger]
            ELSE UNCHANGED <<handle, workers>>
         /\ loc' = [loc EXCEPT ![t].trigger = None,
                               ![t].returned =
                                   IF ok THEN Some(Ok(Unit))
                                   ELSE Propagated("new")]
    /\ pc' = [pc EXCEPT ![t] = "idle"]
    /\ UNCHANGED <<opening, calls, mem, locks, pull, hist, pins_taken, sync_interrupts>>

\* InputPin::poll_interrupt: sync_interrupts.lock().unwrap().poll(..) enters
\* the wait with the mutex held ...
poll_interrupt(t) ==
    /\ pc[t] = "idle"
    /\ handle[t].kind = "InputPin"
    /\ MutexFree
    /\ sync_interrupts' = [sync_interrupts EXCEPT !.owner = Some(t)]
    /\ pc' = [pc EXCEPT ![t] = "poll_wait"]
    /\ loc' = [loc EXCEPT ![t].result = None, ![t].returned = None,
                          ![t].call = "poll_interrupt"]
    /\ UNCHANGED <<opening, calls, mem, locks, pull, hist, pins_taken, handle, workers>>

\* ... and gives the mutex up when the wait is over.
PollReturn(t) ==
    /\ pc[t] = "poll_wait"
    /\ sync_interrupts' = [sync_interrupts EXCEPT !.owner = None]
    /\ \E r \in PollResults(handle[t].pin) :
         loc' = [u \in Threads |->
                   IF u = t THEN [loc[u] EXCEPT !.result = r]
                   ELSE [loc[u] EXCEPT !.during = None]]
    /\ pc' = [pc EXCEPT ![t] = "idle"]
    /\ UNCHANGED <<opening, calls, mem, locks, pull, hist, pins_taken, handle, workers>>

\* A matching edge on the pin of a worker that has not terminated: the
\* event is queued for the worker.
Edge(t) ==
    /\ workers[t].state \in {"running", "stopping"}
    /\ workers[t].edges < MaxEdges
    /\ workers' = [workers EXCEPT ![t].edges = @ + 1, ![t].pending = @ + 1]
    /\ UNCHANGED <<opening, calls, mem, locks, pull, pc, loc, hist, pins_taken, handle,
                   sync_interrupts>>

\* The worker's wait returns a queued event: callback(level).
WorkerCallback(t) ==
    /\ workers[t].state \in {"running", "stopping"}
    /\ workers[t].pending > 0
    /\ workers' = [workers EXCEPT ![t].pending = @ - 1, ![t].calls = @ + 1]
    /\ UNCHANGED <<opening, calls, mem, locks, pull, pc, loc, hist, pins_taken, handle,
                   sync_interrupts>>

\* The worker's wait returns the stop request: the worker terminates.
WorkerExit(t) ==
    /\ workers[t].state = "stopping"
    /\ workers' = [workers EXCEPT ![t].state = "exited"]
    /\ UNCHANGED <<opening, calls, mem, locks, pull, pc, loc, hist, pins_taken, handle,
                   sync_interrupts>>

\* The state once the threads in T have each taken a pin and configured it
\* as an input without pull: thread t holds the t-th test pin.
InputHandle(n) ==
    [NoHandle EXCEPT !.kind = "InputPin", !.pin = n,
                     !.prev_mode = PrevMode(InitMode(n), Input)]

InitInputs(T) ==
    LET held == {SortedTestPins[t] : t \in T}
    IN /\ mem = [r \in Registers |->
                   IF r >= GPFSEL0 /\ r <= GPFSEL0 + (MAX - 1) \div 10
                   THEN FselWord(r - GPFSEL0,
                            [p \in Pins |-> IF p \in held THEN Input
                                            ELSE InitMode(p)])
                   ELSE {}]
       /\ locks = [r \in Registers |-> FALSE]
       /\ pull = [p \in Pins |-> IF p \in held THEN Off ELSE InitPull(p)]
       /\ pc = [t \in Threads |-> "idle"]
       /\ loc = [t \in Threads |->
                   InitLoc(IF t \in T THEN SortedTestPins[t] ELSE 0)]
       /\ hist = [t \in Threads |->
                   IF t \in T
                   THEN [InitHist EXCEPT
                           !.modeBefore = Some(InitMode(SortedTestPins[t])),
                           !.lastPud = Some(Off)]
                   ELSE InitHist]
       /\ pins_taken = [p \in Pins |-> p \in held]
       /\ handle = [t \in Threads |->
                      IF t \in T THEN InputHandle(SortedTestPins[t])
                      ELSE NoHandle]
       /\ sync_interrupts = NoSyncInterrupts
       /\ workers = [t \in Threads |-> NoWorker]
       /\ opening = Opened
       /\ calls = [t \in Threads |-> 0]

\* Threads configuring, clearing and polling the interrupts of their input
\* pins.
InitIrq == InitInputs(Threads)

NextIrq ==
    \E t \in Threads :
        \/ set_interrupt(t) \/ SiLock(t) \/ clear_interrupt(t)
        \/ set_async_interrupt(t) \/ SaNew(t)
        \/ clear_async_interrupt(t) \/ CaiJoin(t)
        \/ poll_interrupt(t) \/ PollReturn(t)
        \/ WorkerExit(t)

SpecIrq == InitIrq /\ [][NextIrq]_vars

\* One input pin with an asynchronous trigger, its worker and the edges on
\* the pin.
InitAsync == \E t \in Threads : InitInputs({t})

NextAsync ==
    \E t \in Threads :
        \/ set_interrupt(t) \/ SiLock(t)
        \/ set_async_interrupt(t) \/ SaNew(t)
        \/ clear_async_interrupt(t) \/ CaiJoin(t)
        \/ Edge(t) \/ WorkerCallback(t) \/ WorkerExit(t)

SpecAsync == InitAsync /\ [][NextAsync]_vars

\* --------------------------- a finite set of set_mode and set_pull calls
\* The most calls one thread issues.
MaxCalls == 2

\* A thread that has calls left issues set_mode or set_pullupdown on its pin.
Call(t) ==
    /\ pc[t] = "idle"
    /\ calls[t] < MaxCalls
    /\ calls' = [calls EXCEPT ![t] = @ + 1]
    /\ \/ \E m \in {Input, Output} : Enter_set_mode(t, loc[t].pin, m, "idle")
       \/ \E pud \in {Off, PullUp} :
            Enter_set_pullupdown(t, loc[t].pin, pud, "idle")
    /\ UNCHANGED <<mem, locks, pull, hist, pins_taken, handle, irqvars, opening>>

RegSteps(t) == SetModeSteps(t) \/ SetPullSteps(t)

InitReg ==
    /\ mem = InitMem
    /\ InitShared
    /\ \E f \in PinChoices : loc = [t \in Threads |-> InitLoc(f[t])]

NextReg == \E t \in Threads : Call(t) \/ RegSteps(t)

SpecReg == InitReg /\ [][NextReg]_vars

\* The same calls with every thread scheduled fairly: a thread whose next
\* step stays possible takes it.
SpecRegFair == SpecReg /\ \A t \in Threads : WF_vars(RegSteps(t))

\* ------------------------------------------------------- GpioMem::open
\* What opening a device file or mapping it can answer: success, or an OS
\* error of one of these kinds.
IoKinds == {"NotFound", "PermissionDenied", "Other"}
Answers == {"Ok"} \cup IoKinds

\* The devices' answers: to open("/dev/gpiomem") and its mmap, to
\* DeviceInfo::new(), and to open("/dev/mem") and its mmap.
Devices ==
    [gpiomem_open : Answers, gpiomem_mmap : Answers, device_info : {"Ok", "Err"},
     mem_open : Answers, mem_mmap : Answers]

\* GpioMem::map_devgpiomem
map_devgpiomem(d) ==
    IF d.gpiomem_open # "Ok" THEN Err(Io(d.gpiomem_open))
    ELSE IF d.gpiomem_mmap # "Ok" THEN Err(Io(d.gpiomem_mmap))
    ELSE Ok("ptr")

\* GpioMem::map_devmem
map_devmem(d) ==
    IF d.device_info # "Ok" THEN Err(UnknownModel)
    ELSE IF d.mem_open # "Ok" THEN Err(Io(d.mem_open))
    ELSE IF d.mem_mmap # "Ok" THEN Err(Io(d.mem_mmap))
    ELSE Ok("ptr")

\* The error of the fallback whatever its kind.
FallbackErrorFirst(gpiomem_err, devmem) == devmem

\* GpioMem::open: the arms of the match on map_devmem()'s error.
OpenError(gpiomem_err, devmem) ==
    IF devmem = Err(Io("PermissionDenied")) THEN Err(PermissionDenied)
    ELSE IF devmem = Err(UnknownModel) THEN Err(UnknownModel)
    ELSE gpiomem_err

\* open: match Self::map_devgpiomem()
OpenGpiomem ==
    /\ opening.pc = "start"
    /\ LET r == map_devgpiomem(opening.devices)
       IN opening' = [opening EXCEPT !.gpiomem = Some(r),
                         !.pc = IF r[1] = "Ok" THEN "locks" ELSE "fallback"]
    /\ UNCHANGED <<mem, locks, pull, pc, loc, hist, pins_taken, handle, irqvars,
                   calls>>

\* open: Err(gpiomem_err) => match Self::map_devmem()
OpenDevmem ==
    /\ opening.pc = "fallback"
    /\ LET r == map_devmem(opening.devices)
       IN opening' =
            IF r[1] = "Ok"
            THEN [opening EXCEPT !.devmem = Some(r), !.pc = "locks"]
            ELSE [opening EXCEPT !.devmem = Some(r), !.pc = "done",
                     !.result = Some(OpenError(Unwrap(opening.gpiomem), r))]
    /\ UNCHANGED <<mem, locks, pull, pc, loc, hist, pins_taken, handle, irqvars,
                   calls>>

\* open: let locks = init_array!(AtomicBool::new(false), ..); Ok(GpioMem {..})
OpenLocks ==
    /\ opening.pc = "locks"
    /\ locks' = [r \in Registers |-> FALSE]
    /\ opening' = [opening EXCEPT !.pc = "done", !.result = Some(Ok("GpioMem"))]
    /\ UNCHANGED <<mem, pull, pc, loc, hist, pins_taken, handle, irqvars, calls>>

\* The register file being opened, the devices answering in any way.
InitOpen ==
    /\ mem = InitMem
    /\ locks = [r \in Registers |-> FALSE]
    /\ pull = [p \in Pins |-> InitPull(p)]
    /\ pc = [t \in Threads |-> "idle"]
    /\ loc = [t \in Threads |-> InitLoc(0)]
    /\ hist = [t \in Threads |-> InitHist]
    /\ pins_taken = [p \in Pins |-> FALSE]
    /\ handle = [t \in Threads |-> NoHandle]
    /\ sync_interrupts = NoSyncInterrupts
    /\ workers = [t \in Threads |-> NoWorker]
    /\ calls = [t \in Threads |-> 0]
    /\ \E d \in Devices :
         opening = [pc |-> "start", devices |-> d, gpiomem |-> None,
                    devmem |-> None, result |-> None]

NextOpen == OpenGpiomem \/ OpenDevmem \/ OpenLocks

SpecOpen == InitOpen /\ [][NextOpen]_vars

\* ------------------------------------------------------------- claims
InSetMode(t) == pc[t] \in {"sm_lock", "sm_read", "sm_write", "sm_unlock"}

ThreadPins == {loc[t].pin : t \in Threads}

\* C1: whenever a thread is not inside set_mode, the 3-bit mode field of its
\* pin holds the mode of its latest set_mode call, whatever the other
\* threads' read-modify-writes of the same function-select register did in
\* between; and the fields of the pins no thread wrote are as they were.
C1_ModeFieldKeepsLastWrite ==
    /\ \A t \in Threads :
         (pc[t] = "idle" /\ hist[t].lastMode # None)
            => ModeOf(mem, loc[t].pin) = Unwrap(hist[t].lastMode)
    /\ \A p \in Pins \ ThreadPins : ModeOf(mem, p) = InitMode(p)

\* Two threads have each finished a set_mode on pins of one function-select
\* register, each leaving a mode other than the one the pin started with.
C1_Witness ==
    \E t, u \in Threads :
        /\ t # u
        /\ loc[t].pin \div 10 = loc[u].pin \div 10
        /\ pc[t] = "idle" /\ pc[u] = "idle"
        /\ hist[t].lastMode # None /\ hist[u].lastMode # None
        /\ Unwrap(hist[t].lastMode) # InitMode(loc[t].pin)
        /\ Unwrap(hist[u].lastMode) # InitMode(loc[u].pin)
        /\ Unwrap(hist[t].lastMode) # Unwrap(hist[u].lastMode)

\* C5: a thread whose latest two set_pullupdown calls on its pin asked for
\* PullUp and then PullDown finds PullDown latched in the pin, and once a
\* call has cleared the control signal, and whenever no call is in
\* progress after one has completed, GPPUD is zero.
C5_LastPullWinsControlCleared ==
    /\ \A t \in Threads :
         (pc[t] = "idle" /\ hist[t].prevPud = Some(PullUp)
                         /\ hist[t].lastPud = Some(PullDown))
            => pull[loc[t].pin] = PullDown
    /\ \A t \in Threads :
         pc[t] \in {"pud_clear_clock", "pud_unlock_clk", "pud_unlock_gppud"}
            => mem[GPPUD] = {}
    /\ ((\E t \in Threads : pc[t] = "idle" /\ hist[t].lastPud # None)
          /\ ~locks[GPPUD]) => mem[GPPUD] = {}

\* A thread has completed set_pullupdown(PullUp) and then
\* set_pullupdown(PullDown) on a pin that started with another pull.
C5_Witness ==
    \E t \in Threads :
        /\ pc[t] = "idle"
        /\ hist[t].prevPud = Some(PullUp)
        /\ hist[t].lastPud = Some(PullDown)
        /\ InitPull(loc[t].pin) # PullDown
        /\ pull[loc[t].pin] = PullDown

\* C6: on an output pin, a read that follows a write returns the level
\* written (High after write(High), Low after write(Low)).
C6_WriteReadRoundTrip ==
    \A t \in Threads :
        (loc[t].result # None /\ hist[t].lastLevel # None)
            => loc[t].result = hist[t].lastLevel

\* A pin of the second bank, whose level started low, read back High after
\* write(High).
C6_Witness ==
    \E t \in Threads :
        /\ loc[t].pin >= 32
        /\ ModeOf(mem, loc[t].pin) = Output
        /\ mem[GPLEV0] = {}
        /\ hist[t].lastLevel = Some(High)
        /\ loc[t].result = Some(High)

Holders(n) == {t \in Threads : handle[t].kind # "none" /\ handle[t].pin = n}

\* C2: a take of a pin whose flag is set is refused with PinInUse, gives no
\* handle and leaves the flag set; a take of a pin whose flag is clear gives
\* its Pin; and the step that ends a handle leaves its pin's flag clear, so
\* that the next take of that pin succeeds.
C2_TakeRefusedWhileHeld ==
    [][\A t \in Threads :
         /\ (hist'[t].outcome # hist[t].outcome /\ hist'[t].outcome # None
               /\ Unwrap(hist'[t].outcome).op = "take")
              => LET r == Unwrap(hist'[t].outcome)
                 IN IF pins_taken[r.pin]
                    THEN /\ r.err = "PinInUse"
                         /\ pins_taken'[r.pin]
                         /\ handle'[t].kind = "none"
                    ELSE /\ r.err = "Ok"
                         /\ pins_taken'[r.pin]
                         /\ handle'[t].kind = "Pin" /\ handle'[t].pin = r.pin
         /\ (handle[t].kind # "none" /\ handle'[t].kind = "none")
              => ~pins_taken'[handle[t].pin]
      ]_vars

\* A thread whose take of a pin was refused holds that pin after a second
\* take, the earlier holder having released it.
C2_Witness ==
    \E t \in Threads :
        /\ handle[t].kind = "Pin"
        /\ hist[t].outcome # None
        /\ Unwrap(hist[t].outcome).op = "take"
        /\ Unwrap(hist[t].outcome).err = "Ok"
        /\ Unwrap(hist[t].outcome).pin = handle[t].pin
        /\ Unwrap(hist[t].outcome).refusedBefore
        /\ \E u \in Threads \ {t} :
             /\ handle[u].kind = "none"
             /\ hist[u].outcome # None
             /\ Unwrap(hist[u].outcome).op = "drop"
             /\ Unwrap(hist[u].outcome).pin = handle[t].pin

C4_InputRestoresMode ==
    \A t \in Threads :
        (pc[t] = "pin_drop" /\ handle[t].kind = "InputPin")
            => ModeOf(mem, handle[t].pin) =
                 IF handle[t].reset_on_drop
                 THEN Unwrap(hist[t].modeBefore) ELSE Input

\* An input handle of a pin that was an output is released with
\* reset_on_drop on, and the pin is an output again.
C4_Witness ==
    \E t \in Threads :
        /\ pc[t] = "pin_drop"
        /\ handle[t].kind = "InputPin"
        /\ handle[t].reset_on_drop
        /\ hist[t].modeBefore = Some(Output)
        /\ ModeOf(mem, handle[t].pin) = Output

\* C10: a typed handle ends only in the step that clears its pin's
\* ownership flag, with reset_on_drop on or off, and a flag is cleared only
\* by the step that ends the handle of its pin.
C10_ReleaseClearsFlagOnce ==
    [][/\ \A t \in Threads :
            (handle[t].kind \in Typed /\ handle'[t].kind = "none")
               => pins_taken[handle[t].pin] /\ ~pins_taken'[handle[t].pin]
       /\ \A n \in Pins :
            (pins_taken[n] /\ ~pins_taken'[n])
               => \E t \in Threads :
                     /\ handle[t].kind # "none" /\ handle[t].pin = n
                     /\ handle'[t].kind = "none"
      ]_vars

\* A typed handle with reset_on_drop off has been released and its pin's
\* flag is clear.
C10_Witness ==
    \E t \in Threads :
        /\ hist[t].outcome # None
        /\ Unwrap(hist[t].outcome).op = "drop"
        /\ ~Unwrap(hist[t].outcome).reset_on_drop
        /\ ~pins_taken[Unwrap(hist[t].outcome).pin]

Polling == {t \in Threads : pc[t] = "poll_wait"}

LiveWorker(t) == workers[t].state \in {"running", "stopping"}

C8_OneTriggerModePerPin ==
    /\ [](\A t \in Threads :
            handle[t].kind = "InputPin"
               => ~(/\ sync_interrupts.trigger[handle[t].pin] # None
                    /\ (handle[t].async_interrupt # None \/ LiveWorker(t))))
    /\ [][\A t \in Threads :
            /\ (/\ sync_interrupts'.trigger[handle[t].pin] # None
                /\ sync_interrupts'.trigger[handle[t].pin]
                      # sync_interrupts.trigger[handle[t].pin])
                 => /\ handle[t].async_interrupt = None
                    /\ workers[t].state \in {"none", "joined"}
            /\ (workers'[t].state = "running" /\ workers[t].state # "running")
                 => /\ sync_interrupts.trigger[handle[t].pin] = None
                    /\ handle[t].async_interrupt = None
                    /\ workers[t].state \in {"none", "joined"}
      ]_vars

\* A pin has a synchronous trigger after having had a worker, and another
\* pin has a worker after having had a synchronous trigger cleared by
\* set_async_interrupt.
C8_Witness ==
    \E t, u \in Threads :
        /\ t # u
        /\ sync_interrupts.trigger[handle[t].pin] # None
        /\ workers[t].state = "joined"
        /\ handle[u].async_interrupt # None
        /\ workers[u].state = "running"
        /\ sync_interrupts.trigger[handle[u].pin] = None

\* C9: at most one thread is inside the wait of poll_interrupt, and it is
\* the holder of the sync_interrupts mutex.
C9_OnePollInFlight ==
    /\ Cardinality(Polling) <= 1
    /\ \A t \in Polling : sync_interrupts.owner = Some(t)

\* A thread is inside the wait of poll_interrupt on its pin after another
\* thread's poll of another pin has returned a level.
C9_Witness ==
    \E t, u \in Threads :
        /\ t # u
        /\ pc[t] = "poll_wait"
        /\ pc[u] = "idle"
        /\ handle[u].kind = "InputPin"
        /\ handle[u].pin # handle[t].pin
        /\ loc[u].result # None

FastFails == map_devgpiomem(opening.devices)[1] = "Err"

FallbackFails == map_devmem(opening.devices)[1] = "Err"

FallbackDenied ==
    /\ opening.devices.device_info = "Ok"
    /\ \/ opening.devices.mem_open = "PermissionDenied"
       \/ /\ opening.devices.mem_open = "Ok"
          /\ opening.devices.mem_mmap = "PermissionDenied"

\* C11: the fallback path is attempted only if the fast path failed; open
\* fails exactly when both fail, and then with PermissionDenied if the
\* fallback was denied permission, with UnknownModel if the fallback could
\* not identify the model, and otherwise with the fast path's error.
C11_OpenErrorPriority ==
    /\ opening.devmem # None => (opening.gpiomem # None /\ FastFails)
    /\ opening.pc = "done" =>
         /\ (opening.result = Some(Ok("GpioMem")))
               <=> ~(FastFails /\ FallbackFails)
         /\ (FastFails /\ FallbackFails) =>
              opening.result =
                 Some(IF FallbackDenied THEN Err(PermissionDenied)
                      ELSE IF opening.devices.device_info = "Err"
                      THEN Err(UnknownModel)
                      ELSE map_devgpiomem(opening.devices))
         /\ (FastFails /\ ~FallbackFails) => opening.devmem = Some(Ok("ptr"))
         /\ ~FastFails => opening.devmem = None

\* /dev/gpiomem is missing and mapping /dev/mem is denied: open has failed
\* with PermissionDenied.
C11_Witness ==
    /\ opening.pc = "done"
    /\ opening.gpiomem = Some(Err(Io("NotFound")))
    /\ opening.devices.mem_open = "Ok"
    /\ opening.devmem = Some(Err(Io("PermissionDenied")))
    /\ opening.result = Some(Err(PermissionDenied))

\* The flags a thread holds, by its position in set_mode or set_pullupdown.
HoldsFlag(t, r) ==
    \/ /\ r = ModeOffset(loc[t].pin)
       /\ pc[t] \in {"sm_read", "sm_write", "sm_unlock"}
    \/ /\ r = GPPUD
       /\ pc[t] \in {"pud_lock_clk", "pud_release_gppud", "pud_read",
                     "pud_write_control", "pud_sleep_setup", "pud_write_clock",
                     "pud_sleep_hold", "pud_clear_control", "pud_clear_clock",
                     "pud_unlock_clk", "pud_unlock_gppud"}
    \/ /\ r = ClkOffset(loc[t].pin)
       /\ pc[t] \in {"pud_read", "pud_write_control", "pud_sleep_setup",
                     "pud_write_clock", "pud_sleep_hold", "pud_clear_control",
                     "pud_clear_clock", "pud_unlock_clk"}

Sleeping(t) == pc[t] \in {"pud_sleep_setup", "pud_sleep_hold"}

Spinning(t) == pc[t] \in {"sm_lock", "pud_lock_gppud"}

\* C12 as stated: no thread sleeps while it holds a register's flag.
C12_NoFlagHeldAsleep ==
    \A t \in Threads : \A r \in Registers : Sleeping(t) => ~HoldsFlag(t, r)

\* C12, amended: every flag that is set is held by exactly one thread in
\* set_mode or set_pullupdown, and the flags a thread holds are set; a
\* thread in set_mode holds only its function-select register's flag and
\* does not sleep; a thread waiting for a flag holds none; a thread in
\* either sleep of set_pullupdown holds the flags of GPPUD and of its
\* pin's clock register, and no other.
C12_FlagsHeldAcrossPullSleeps ==
    /\ \A r \in Registers :
         /\ locks[r] <=> (\E t \in Threads : HoldsFlag(t, r))
         /\ Cardinality({t \in Threads : HoldsFlag(t, r)}) <= 1
    /\ \A t \in Threads :
         /\ InSetMode(t) =>
              /\ ~Sleeping(t)
              /\ \A r \in Registers :
                   HoldsFlag(t, r) => r = ModeOffset(loc[t].pin)
         /\ Spinning(t) => \A r \in Registers : ~HoldsFlag(t, r)
         /\ Sleeping(t) =>
              /\ locks[GPPUD] /\ locks[ClkOffset(loc[t].pin)]
              /\ {r \in Registers : HoldsFlag(t, r)}
                    = {GPPUD, ClkOffset(loc[t].pin)}

\* A thread sleeps in set_pullupdown holding two flags while another thread
\* waits for the flag of GPPUD.
C12_Witness ==
    \E t, u \in Threads :
        /\ Sleeping(t)
        /\ locks[GPPUD] /\ locks[ClkOffset(loc[t].pin)]
        /\ pc[u] = "pud_lock_gppud"

\* The selector held in the control register.
Selector == ToNat(BitAnd(mem[GPPUD], Bits(3)))

\* Between its first and its last register write.
InPullWrites(t) ==
    pc[t] \in {"pud_sleep_setup", "pud_write_clock", "pud_sleep_hold",
               "pud_clear_control", "pud_clear_clock"}

\* C13: when a set_pullupdown call is about to pulse its pin's clock bit,
\* the control register holds the selector the call asked for; from the
\* pulse on, and after the call, the pin has latched it; a pin's pull
\* changes only by the pulse of the call that names it, and the pins no
\* call names keep theirs; and between a call's first and last write, the
\* control register and the call's clock register change only by the
\* call's own steps.
C13_EachPullLatchesItsOwn ==
    /\ [](/\ \A t \in Threads :
               /\ pc[t] \in {"pud_sleep_setup", "pud_write_clock"}
                    => Selector = Unwrap(loc[t].pud)
               /\ pc[t] \in {"pud_sleep_hold", "pud_clear_control",
                             "pud_clear_clock", "pud_unlock_clk",
                             "pud_unlock_gppud"}
                    => pull[loc[t].pin] = Unwrap(loc[t].pud)
               /\ (pc[t] = "idle" /\ hist[t].lastPud # None)
                    => pull[loc[t].pin] = Unwrap(hist[t].lastPud)
          /\ \A p \in Pins \ ThreadPins : pull[p] = InitPull(p))
    /\ [][/\ \A p \in Pins :
               pull'[p] # pull[p]
                  => \E t \in Threads :
                        /\ pc[t] = "pud_write_clock" /\ pc'[t] = "pud_sleep_hold"
                        /\ loc[t].pin = p
                        /\ pull'[p] = Unwrap(loc[t].pud)
          /\ \A t \in Threads :
               (/\ InPullWrites(t)
                /\ \/ mem'[GPPUD] # mem[GPPUD]
                   \/ mem'[ClkOffset(loc[t].pin)] # mem[ClkOffset(loc[t].pin)])
                  => pc'[t] # pc[t]
      ]_vars

\* One call has latched its pin and holds the pulse, while a call for
\* another pin, asking for another pull, waits for the control register.
C13_Witness ==
    \E t, u \in Threads :
        /\ pc[t] = "pud_sleep_hold"
        /\ pull[loc[t].pin] = Unwrap(loc[t].pud)
        /\ pull[loc[t].pin] # InitPull(loc[t].pin)
        /\ pc[u] = "pud_lock_gppud"
        /\ loc[u].pin # loc[t].pin
        /\ loc[u].pud # loc[t].pud
        /\ hist[u].prevPud # None
        /\ pull[loc[u].pin] = Unwrap(hist[u].prevPud)

\* Inside the release of its handle, and inside set_pullupdown.
Releasing(t) ==
    \/ pc[t] \in {"drop_pull", "pin_drop"}
    \/ pc[t] # "idle" /\ loc[t].ret \in {"drop_pull", "pin_drop"}

InSetPull(t) ==
    pc[t] \in {"pud_lock_gppud", "pud_lock_clk", "pud_release_gppud",
               "pud_read", "pud_write_control", "pud_sleep_setup",
               "pud_write_clock", "pud_sleep_hold", "pud_clear_control",
               "pud_clear_clock", "pud_unlock_clk", "pud_unlock_gppud"}

PullRegisters == {GPPUD, GPPUDCLK0, GPPUDCLK0 + 1}

RestoresPull(h) == h.reset_on_drop /\ h.pud_mode # Off

\* C14: the release of a typed handle runs set_pullupdown, with Off, only
\* for a handle with reset_on_drop on that applied PullUp or PullDown, and
\* for such a handle the pin's pull is Off when its drop is over; the
\* release of any other typed handle never enters set_pullupdown and
\* leaves GPPUD, the clock registers and every pin's pull as they were.
C14_PullClearedOnlyIfApplied ==
    /\ [](\A t \in Threads :
            /\ (Releasing(t) /\ InSetPull(t))
                 => /\ RestoresPull(handle[t])
                    /\ handle[t].kind = "InputPin"
                    /\ loc[t].pud = Some(Off)
            /\ (pc[t] = "pin_drop" /\ handle[t].kind \in Typed
                  /\ RestoresPull(handle[t]))
                 => pull[handle[t].pin] = Off)
    /\ [][\A t \in Threads :
            (Releasing(t)' /\ handle[t].kind \in Typed
               /\ ~RestoresPull(handle[t]))
              => /\ ~InSetPull(t)'
                 /\ pull' = pull
                 /\ \A r \in PullRegisters : mem'[r] = mem[r]
      ]_vars

\* The drop of an input handle that applied PullUp is over, with
\* reset_on_drop on, and the pin's pull is Off.
C14_Witness ==
    \E t \in Threads :
        /\ pc[t] = "pin_drop"
        /\ handle[t].kind = "InputPin"
        /\ handle[t].reset_on_drop
        /\ handle[t].pud_mode = PullUp
        /\ pull[handle[t].pin] = Off

\* The mode a typed handle's constructor asks for.
TargetOf(h) ==
    IF h.kind = "InputPin" THEN Input
    ELSE IF h.kind = "OutputPin" THEN Output
    ELSE Unwrap(h.mode)

\* C15: a typed handle records no previous mode when the pin already had
\* the handle's mode, and the mode the pin had otherwise; while a handle
\* with no previous mode exists, from its construction to its release, its
\* thread never enters set_mode and the pin's function-select register
\* does not change; once a handle is constructed the pin has its mode.
C15_NoWriteWhenModeMatches ==
    /\ [](\A t \in Threads :
            /\ (handle[t].kind \in Typed /\ hist[t].modeBefore # None)
                 => handle[t].prev_mode =
                       IF Unwrap(hist[t].modeBefore) = TargetOf(handle[t])
                       THEN None ELSE hist[t].modeBefore
            /\ (handle[t].kind \in Typed /\ pc[t] = "idle")
                 => ModeOf(mem, handle[t].pin) = TargetOf(handle[t]))
    /\ [][\A t \in Threads :
            (handle'[t].kind \in Typed /\ handle'[t].prev_mode = None)
               => /\ ~InSetMode(t)'
                  /\ mem'[ModeOffset(handle'[t].pin)]
                        = mem[ModeOffset(handle'[t].pin)]
      ]_vars

\* The drop of an alternate-function handle is over, with reset_on_drop
\* on: the pin had the handle's mode before, none was recorded, and the
\* pin still has it.
C15_Witness ==
    \E t \in Threads :
        /\ pc[t] = "pin_drop"
        /\ handle[t].kind = "AltPin"
        /\ handle[t].reset_on_drop
        /\ handle[t].mode = Some(Alt3)
        /\ hist[t].modeBefore = Some(Alt3)
        /\ handle[t].prev_mode = None
        /\ ModeOf(mem, handle[t].pin) = Alt3

\* C16: clear_interrupt and clear_async_interrupt are idempotent. Called on
\* a pin with no trigger of that kind, either returns Ok and changes neither
\* the recorded synchronous triggers, nor any worker, nor any handle; a
\* clear_interrupt that returned Ok leaves no synchronous trigger on the
\* pin and a clear_async_interrupt that has returned leaves the slot empty
\* and no live worker, so that a second call in a row is such a call; and a
\* worker is told to stop only while it is running, hence once.
C16_ClearIsIdempotent ==
    [][\A t \in Threads :
         /\ (clear_interrupt(t)
               /\ sync_interrupts.trigger[handle[t].pin] = None)
              => /\ loc'[t].returned = Some(Ok(Unit))
                 /\ UNCHANGED <<sync_interrupts, workers, handle>>
         /\ (clear_interrupt(t) /\ loc'[t].returned = Some(Ok(Unit)))
              => sync_interrupts'.trigger[handle[t].pin] = None
         /\ (clear_async_interrupt(t) /\ handle[t].async_interrupt = None)
              => /\ pc'[t] = "idle"
                 /\ loc'[t].returned = Some(Ok(Unit))
                 /\ UNCHANGED <<sync_interrupts, workers, handle>>
         /\ ((clear_async_interrupt(t) \/ CaiJoin(t)) /\ pc'[t] = "idle")
              => /\ handle'[t].async_interrupt = None
                 /\ ~LiveWorker(t)'
         /\ (workers'[t].state = "stopping" /\ workers[t].state # "stopping")
              => workers[t].state = "running"
      ]_vars

\* clear_async_interrupt has returned Ok on a pin whose worker was stopped
\* and joined and which has no trigger of either kind left: the state a
\* second clear in a row starts from and ends in.
C16_Witness ==
    \E t \in Threads :
        /\ pc[t] = "idle"
        /\ handle[t].kind = "InputPin"
        /\ loc[t].call = "clear_async_interrupt"
        /\ loc[t].returned = Some(Ok(Unit))
        /\ workers[t].state = "joined"
        /\ handle[t].async_interrupt = None
        /\ sync_interrupts.trigger[handle[t].pin] = None

IsErr(r) == r # None /\ Unwrap(r)[1] = "Err"

\* C17: a failure of a step of set_interrupt, set_async_interrupt,
\* clear_interrupt or clear_async_interrupt is what the call returns, and
\* the call does nothing after it. A call that has returned an error is
\* over; a call that is past its clearing steps has seen them all succeed;
\* the step on which a call returns an error records no synchronous trigger
\* and starts no worker; and a call returns Ok only when its last step has
\* had its effect: set_interrupt has recorded its trigger, clear_interrupt
\* has removed it, set_async_interrupt has started its worker.
C17_FailuresAreReturned ==
    /\ [](\A t \in Threads :
            /\ IsErr(loc[t].returned) => pc[t] = "idle"
            /\ pc[t] \in {"si_lock", "sa_new"}
                 => /\ loc[t].returned = None
                    /\ handle[t].async_interrupt = None
                    /\ ~LiveWorker(t)
            /\ pc[t] = "sa_new"
                 => sync_interrupts.trigger[handle[t].pin] = None)
    /\ [][\A t \in Threads :
            /\ (IsErr(loc'[t].returned) /\ loc'[t] # loc[t])
                 => /\ sync_interrupts'.trigger = sync_interrupts.trigger
                    /\ handle'[t].async_interrupt \in
                          {None, handle[t].async_interrupt}
                    /\ workers'[t].state = "running"
                          => workers[t].state = "running"
            /\ (SiLock(t) /\ loc'[t].returned = Some(Ok(Unit)))
                 => /\ loc[t].trigger # None
                    /\ sync_interrupts'.trigger[handle[t].pin]
                          = loc[t].trigger
            /\ (SaNew(t) /\ loc'[t].returned = Some(Ok(Unit)))
                 => /\ loc[t].trigger # None
                    /\ handle'[t].async_interrupt = loc[t].trigger
                    /\ workers'[t].state = "running"
            /\ (clear_interrupt(t) /\ loc'[t].returned = Some(Ok(Unit)))
                 => sync_interrupts'.trigger[handle[t].pin] = None
      ]_vars

\* set_interrupt has returned the error of stopping the worker of its pin:
\* the worker is gone and no synchronous trigger was recorded for the pin;
\* and set_async_interrupt has returned the error of clearing the
\* synchronous trigger of another pin: that trigger is still recorded and
\* no worker was started.
C17_Witness ==
    \E t, u \in Threads :
        /\ pc[t] = "idle"
        /\ loc[t].call = "set_interrupt"
        /\ loc[t].returned = Some(Failed("stop"))
        /\ workers[t].state = "joined"
        /\ sync_interrupts.trigger[handle[t].pin] = None
        /\ pc[u] = "idle"
        /\ loc[u].call = "set_async_interrupt"
        /\ loc[u].returned = Some(Failed("clear_interrupt"))
        /\ sync_interrupts.trigger[handle[u].pin] # None
        /\ workers[u].state = "none"

\* C18: acquiring the flags never deadlocks. With finitely many set_mode
\* and set_pullupdown calls and every thread scheduled fairly, every call
\* that has started returns, and from some point on every one of the
\* register flags is false.
C18_EveryCallCompletes ==
    /\ \A t \in Threads : (pc[t] # "idle") ~> (pc[t] = "idle")
    /\ <>[](\A r \in Registers : ~locks[r])

\* A thread waits for the flag of GPPUD while another holds it, and its
\* pin's clock register's flag, in a sleep of set_pullupdown.
C18_Witness ==
    \E t, u \in Threads :
        /\ pc[t] = "pud_lock_gppud"
        /\ Sleeping(u)
        /\ HoldsFlag(u, GPPUD)
        /\ HoldsFlag(u, ClkOffset(loc[u].pin))

\* C19: set_high and set_low need no exclusion. Threads writing the levels
\* of different output pins, in any interleaving: the level of each
\* thread's pin is the level that thread wrote last, and a write changes
\* the level of no pin but its own and the contents of no register but the
\* level register of its pin's bank.
C19_LevelWritesIndependent ==
    /\ [](\A t \in Threads :
            hist[t].lastLevel # None
               => LevelOf(mem, loc[t].pin) = Unwrap(hist[t].lastLevel))
    /\ [][\A t \in Threads :
            (set_high(t) \/ set_low(t))
               => /\ \A p \in Pins \ {loc[t].pin} :
                       LevelOf(mem', p) = LevelOf(mem, p)
                  /\ \A r \in Registers \ {LevelOffset(loc[t].pin)} :
                       mem'[r] = mem[r]
      ]_vars

\* Two pins of one bank whose levels started high, one written low and the
\* other written high after it had been low: each has the level its thread
\* wrote last, and a third output pin of the bank still has the level
\* it started with.
C19_Witness ==
    \E t, u \in Threads :
        /\ loc[t].pin # loc[u].pin
        /\ LevelOffset(loc[t].pin) = LevelOffset(loc[u].pin)
        /\ hist[t].lastLevel = Some(Low)
        /\ hist[u].lastLevel = Some(High)
        /\ LevelOf(mem, loc[t].pin) = Low
        /\ LevelOf(mem, loc[u].pin) = High
        /\ \E p \in Pins \ {loc[t].pin, loc[u].pin} :
              /\ LevelOffset(p) = LevelOffset(loc[t].pin)
              /\ LevelOf(mem, p) = High

ClockRegisters == {GPPUDCLK0, GPPUDCLK0 + 1}

PastGppud(t) == InSetPull(t) /\ pc[t] # "pud_lock_gppud"

\* C20: a clock register's flag is set only while the thread that holds it
\* also holds the flag of GPPUD; at most one thread is past the first
\* compare-and-swap of set_pullupdown at a time, whatever the pins; and the
\* second compare-and-swap always finds its flag free, so that no thread is
\* ever at the release of GPPUD's flag for a retry.
C20_ClockFlagUnderGppud ==
    /\ [](/\ \A r \in ClockRegisters :
               locks[r] => /\ locks[GPPUD]
                           /\ \E t \in Threads :
                                 HoldsFlag(t, r) /\ HoldsFlag(t, GPPUD)
          /\ \A t, u \in Threads : (PastGppud(t) /\ PastGppud(u)) => t = u
          /\ \A t \in Threads :
               /\ pc[t] # "pud_release_gppud"
               /\ pc[t] = "pud_lock_clk" => ~locks[ClkOffset(loc[t].pin)])
    /\ [][\A t \in Threads : PudLockClk(t) => pc'[t] = "pud_read"]_vars

\* A thread holds GPPUD's flag and the flag of the second clock register,
\* in a sleep of its protocol, while a thread whose pin is in the first
\* clock register waits for GPPUD's flag.
C20_Witness ==
    \E t, u \in Threads :
        /\ Sleeping(t)
        /\ ClkOffset(loc[t].pin) = GPPUDCLK0 + 1
        /\ locks[GPPUDCLK0 + 1]
        /\ ~locks[GPPUDCLK0]
        /\ locks[GPPUD]
        /\ pc[u] = "pud_lock_gppud"
        /\ ClkOffset(loc[u].pin) = GPPUDCLK0

\* C21: the restoring writes of a released handle are over before its
\* pin's ownership flag is cleared. A thread holding a handle has its pin's
\* flag set, a pin has one holder, and a thread inside a register operation
\* holds a handle; when a typed handle with reset_on_drop on is about to
\* give up its pin, the pin has the mode it had before the handle was
\* configured and, if the handle applied a pull, the pull Off; a pin's mode
\* or pull changes only by a step of its holder, with the flag set before
\* and after; and the step that clears a flag writes nothing and leaves the
\* releasing thread outside every operation.
C21_RestoredBeforeFlagCleared ==
    /\ [](/\ \A t \in Threads :
               /\ handle[t].kind # "none" => pins_taken[handle[t].pin]
               /\ pc[t] # "idle" => handle[t].kind # "none"
               /\ (pc[t] = "pin_drop" /\ handle[t].kind \in Typed
                     /\ handle[t].reset_on_drop)
                    => /\ ModeOf(mem, handle[t].pin)
                             = Unwrap(hist[t].modeBefore)
                       /\ handle[t].pud_mode # Off
                             => pull[handle[t].pin] = Off
          /\ \A n \in Pins : \A t, u \in Holders(n) : t = u)
    /\ [][/\ \A n \in Pins :
               (ModeOf(mem', n) # ModeOf(mem, n) \/ pull'[n] # pull[n])
                  => /\ pins_taken[n] /\ pins_taken'[n]
                     /\ \E t \in Holders(n) :
                           /\ InSetMode(t) \/ InSetPull(t)
                           /\ pc'[t] # pc[t]
          /\ \A n \in Pins :
               (pins_taken[n] /\ ~pins_taken'[n])
                  => /\ mem' = mem /\ pull' = pull
                     /\ \A t \in Holders(n) :
                           pc[t] = "pin_drop" /\ pc'[t] = "idle"
      ]_vars

\* An input handle that changed the pin's mode and applied PullUp is being
\* released with reset_on_drop on: both restoring writes are done, the
\* pin's flag is still set, and the other thread's take of the pin has
\* been refused.
C21_Witness ==
    \E t, u \in Threads :
        /\ pc[t] = "pin_drop"
        /\ handle[t].kind = "InputPin"
        /\ handle[t].reset_on_drop
        /\ handle[t].pud_mode = PullUp
        /\ handle[t].prev_mode # None
        /\ ModeOf(mem, handle[t].pin) = Unwrap(handle[t].prev_mode)
        /\ pull[handle[t].pin] = Off
        /\ pins_taken[handle[t].pin]
        /\ handle[u].kind = "none"
        /\ hist[u].outcome # None
        /\ Unwrap(hist[u].outcome).op = "take"
        /\ Unwrap(hist[u].outcome).pin = handle[t].pin
        /\ Unwrap(hist[u].outcome).err = "PinInUse"

\* A step of u that takes the sync_interrupts lock: the second step of
\* set_interrupt, clear_interrupt, the first step of set_async_interrupt.
LockStep(u) == SiLock(u) \/ clear_interrupt(u) \/ set_async_interrupt(u)

\* A step on which u's call returns.
Returns(u) == pc[u] # "poll_wait" /\ loc'[u].returned # None /\ loc'[u] # loc[u]

\* C22 as stated: while a poll is in flight no other thread takes the
\* sync_interrupts lock, and a call to set_interrupt, clear_interrupt or
\* set_async_interrupt begun during the poll does not return before the
\* poll does.
C22_NoReturnDuringPoll ==
    [][\A u \in Threads :
         /\ LockStep(u) => Polling = {}
         /\ loc[u].during # None => ~Returns(u)
      ]_vars

\* C22, amended: while a poll is in flight no other thread takes the
\* sync_interrupts lock and the recorded synchronous triggers do not
\* change, so clear_interrupt and set_async_interrupt do nothing and
\* set_interrupt records nothing until the poll returns; a set_interrupt
\* begun during the poll stops its pin's worker without the lock and then
\* waits for the lock, or returns, before the poll does, the error of
\* stopping the worker.
C22_LockedOutDuringPoll ==
    /\ [](\A u \in Threads :
            /\ loc[u].during # None
                 => /\ sync_interrupts.owner = loc[u].during
                    /\ Unwrap(loc[u].during) \in Polling \ {u}
                    /\ loc[u].call = "set_interrupt"
                    /\ pc[u] \in {"cai_join", "si_lock"}
            /\ Polling # {}
                 => /\ ~ENABLED SiLock(u)
                    /\ ~ENABLED clear_interrupt(u)
                    /\ ~ENABLED set_async_interrupt(u))
    /\ [][/\ \A u \in Threads :
               /\ LockStep(u) => Polling = {}
               /\ (loc[u].during # None /\ Returns(u))
                    => /\ loc'[u].returned = Some(Failed("stop"))
                       /\ pc[u] = "cai_join"
          /\ sync_interrupts'.trigger # sync_interrupts.trigger
               => Polling = {}
      ]_vars

\* A thread is inside the wait of poll_interrupt; another thread's
\* set_interrupt on another pin, begun during that poll, has stopped its
\* pin's worker and waits for the lock with its trigger not recorded.
C22_Witness ==
    \E t, u \in Threads :
        /\ pc[t] = "poll_wait"
        /\ loc[u].during = Some(t)
        /\ pc[u] = "si_lock"
        /\ handle[u].pin # handle[t].pin
        /\ workers[u].state = "joined"
        /\ loc[u].trigger # None
        /\ sync_interrupts.trigger[handle[u].pin] = None

\* No trigger of either kind on t's pin, and no worker left.
NoTrigger(t) ==
    /\ sync_interrupts.trigger[handle[t].pin] = None
    /\ handle[t].async_interrupt = None
    /\ ~LiveWorker(t)

\* C23: a failed configuration call leaves the pin without the trigger it
\* had. When set_async_interrupt has returned the error of creating the
\* worker, the pin has no trigger of either kind and no worker; when
\* clear_async_interrupt has returned, Ok or the error of stopping the
\* worker, the slot is empty and no worker is left, and a
\* clear_async_interrupt that follows returns Ok at once and changes no
\* worker.
C23_FailedCallClearsTrigger ==
    /\ [](\A t \in Threads :
            /\ (pc[t] = "idle" /\ loc[t].call = "set_async_interrupt"
                  /\ loc[t].returned = Some(Failed("new")))
                 => NoTrigger(t)
            /\ (pc[t] = "idle" /\ loc[t].call = "clear_async_interrupt")
                 => /\ loc[t].returned \in {Some(Ok(Unit)), Some(Failed("stop"))}
                    /\ handle[t].async_interrupt = None
                    /\ ~LiveWorker(t))
    /\ [][\A t \in Threads :
            /\ (SaNew(t) /\ loc'[t].returned = Some(Failed("new")))
                 => /\ NoTrigger(t)'
                    /\ UNCHANGED <<sync_interrupts, workers, handle>>
            /\ (clear_async_interrupt(t)
                  /\ loc[t].call = "clear_async_interrupt")
                 => /\ pc'[t] = "idle"
                    /\ loc'[t].returned = Some(Ok(Unit))
                    /\ UNCHANGED <<sync_interrupts, workers, handle>>
      ]_vars

\* set_async_interrupt has returned the error of creating the worker on a
\* pin whose earlier worker it stopped: the pin has no trigger left; and
\* clear_async_interrupt has returned the error of stopping the worker of
\* another pin: its slot is empty and the worker is gone.
C23_Witness ==
    \E t, u \in Threads :
        /\ pc[t] = "idle"
        /\ loc[t].call = "set_async_interrupt"
        /\ loc[t].returned = Some(Failed("new"))
        /\ workers[t].state = "joined"
        /\ NoTrigger(t)
        /\ pc[u] = "idle"
        /\ loc[u].call = "clear_async_interrupt"
        /\ loc[u].returned = Some(Failed("stop"))
        /\ workers[u].state = "joined"
        /\ handle[u].async_interrupt = None
====
